---- MODULE Spec2Model ----
(***************************************************************************)
(* Model of src/index.ts: a Cloudflare Worker that accepts requests        *)
(* carrying a dummy key, validates configuration and credential, and       *)
(* forwards /v1 requests to an AI gateway with the real key swapped in.    *)
(*                                                                         *)
(* Strings are sequences of one-character strings, so that split,          *)
(* startsWith, substring and concatenation are computed as the code does.  *)
(* The JavaScript values undefined and null are the one-element sequences  *)
(* Undefined and Null, which no string of the model equals.                *)
(***************************************************************************)
EXTENDS Integers, Sequences, FiniteSets, TLC

VARIABLES
  pc,        \* pc[i]: position of invocation i of handleRequest
  request,   \* request[i]: the inbound Request of invocation i
  env,       \* env[i]: the Env bindings passed to invocation i
  response,  \* response[i]: the Response invocation i returned
  fetched,   \* fetched[i]: state of invocation i's fetch promise and its value
  outbound   \* the requests handed to fetch(), in order, each tagged with its issuer

vars == <<pc, request, env, response, fetched, outbound>>

----------------------------------------------------------------------------
(* Bounds of the model *)

MaxKeyLen == 1
NumInvocations == 2

----------------------------------------------------------------------------
(* JavaScript values and string primitives *)

Undefined == <<"undefined">>
Null == <<"null">>

\* !x for x a string, undefined or null
Falsy(x) == x = Undefined \/ x = Null \/ x = <<>>

\* s.startsWith(p)
startsWith(s, p) == Len(s) >= Len(p) /\ SubSeq(s, 1, Len(p)) = p

\* s.substring(n)
substring(s, n) == SubSeq(s, n + 1, Len(s))

\* s.split(' ').pop(): the segment after the last space, the whole string if none
SplitPop(s) ==
  LET spaces == {k \in 1..Len(s) : s[k] = " "}
  IN IF spaces = {} THEN s
     ELSE SubSeq(s, (CHOOSE k \in spaces : \A m \in spaces : m <= k) + 1, Len(s))

V1 == <<"/", "v", "1">>
Bearer == <<"B", "e", "a", "r", "e", "r", " ">>

\* Whether new Request(url, ...) accepts url: the Workers runtime has no base
\* URL, so the string must parse as an absolute URL (a scheme, then a host).
SchemeChars == {"h", "t", "p", "s"}
IsAbsoluteURL(s) ==
  \E k \in 2..Len(s) :
    /\ s[k] = ":"
    /\ \A m \in 1..(k - 1) : s[m] \in SchemeChars
    /\ \E m \in (k + 1)..Len(s) : s[m] # "/"

----------------------------------------------------------------------------
(* Responses *)

responseHeader ==
  [AccessControlAllowOrigin |-> "*", ContentType |-> "application/json;charset=UTF-8"]

RequestError(type, code, message) ==
  [type |-> type, code |-> code, message |-> message, param |-> "null"]

\* JSON.stringify(error): the members in declaration order
JSONstringify(error) ==
  <<"type", error.type, "code", error.code,
    "message", error.message, "param", error.param>>

createErrorResponse(error, status) ==
  [status |-> status, headers |-> responseHeader, body |-> JSONstringify(error)]

NoResponse == [status |-> 0, headers |-> <<>>, body |-> <<>>]

\* What the synchronous part of handleRequest ends in: a returned Response,
\* a suspension at `await fetch(gptRequest)`, or a thrown exception.
Return(resp) == [kind |-> "return", response |-> resp, sent |-> <<>>]
Await(req) == [kind |-> "await", response |-> NoResponse, sent |-> <<req>>]
Throw == [kind |-> "throw", response |-> NoResponse, sent |-> <<>>]

----------------------------------------------------------------------------
(* handleRequest, one definition per check, last check first *)

\* headers.set(name, value)
HeadersSet(headers, name, value) == [headers EXCEPT ![name] = value]

trimmedURL(req, e) ==
  e.AI_GATEWAY_ENDPOINT_URL \o substring(req.url.pathname, Len(V1))

gptRequest_KeepsAuthorization(req, e) ==
  [url |-> trimmedURL(req, e), headers |-> req.headers,
   method |-> req.method, body |-> req.body, redirect |-> "follow"]

gptRequest(req, e) ==
  [url |-> trimmedURL(req, e),
   headers |-> HeadersSet(req.headers, "Authorization", Bearer \o e.REAL_OPENAI_KEY),
   method |-> req.method, body |-> req.body, redirect |-> "follow"]

\* A forwarder that answers from an earlier invocation's upstream response
ForwardRequest_Cached(req, e) ==
  IF \E j \in DOMAIN pc :
       pc[j] = "returned" /\ fetched[j].state = "resolved" /\ request[j] = req
  THEN Return(response[CHOOSE j \in DOMAIN pc :
                 pc[j] = "returned" /\ fetched[j].state = "resolved" /\ request[j] = req])
  ELSE IF ~IsAbsoluteURL(trimmedURL(req, e)) THEN Throw
  ELSE Await(gptRequest(req, e))

\* new Request(trimmedURL, ...) throws outside the try block when the URL does
\* not parse; otherwise the handler suspends at await fetch(gptRequest).
ForwardRequest(req, e) ==
  IF ~IsAbsoluteURL(trimmedURL(req, e)) THEN Throw
  ELSE Await(gptRequest(req, e))

CheckPath_Skipped(req, e) == ForwardRequest(req, e)

CheckPath(req, e) ==
  IF ~startsWith(req.url.pathname, V1)
  THEN Return(createErrorResponse(
         RequestError("invalid_request_error", "unknown_url",
                      "(OpenAI Wrapper) Your URL does not start with /v1"), 400))
  ELSE ForwardRequest(req, e)

CheckKeysDiffer_Skipped(req, e) == CheckPath(req, e)

CheckKeysDiffer(req, e) ==
  IF e.REAL_OPENAI_KEY = e.DUMMY_WRAPPER_KEY
  THEN Return(createErrorResponse(
         RequestError("invalid_request_error", "wrapper_custom_dummy_key_equals_to_real_key",
                      "(OpenAI Wrapper) The dummy key cannot be the same as the real OpenAI key, which is prevented for misusing the real key elsewhere. Please change DUMMY_WRAPPER_KEY in the Cloudflare Dashboard."), 500))
  ELSE CheckPath(req, e)

CheckRealKey_Skipped(req, e) == CheckKeysDiffer(req, e)

CheckRealKey(req, e) ==
  IF Falsy(e.REAL_OPENAI_KEY)
  THEN Return(createErrorResponse(
         RequestError("invalid_request_error", "wrapper_custom_no_real_key_in_env",
                      "(OpenAI Wrapper) You do not provide a real OpenAI key. Please add REAL_OPENAI_KEY in the Cloudflare Dashboard."), 500))
  ELSE CheckKeysDiffer(req, e)

CheckWrapperKey_Skipped(req, e) == CheckRealKey(req, e)

CheckWrapperKey(req, e) ==
  IF SplitPop(req.headers["Authorization"]) # e.DUMMY_WRAPPER_KEY
  THEN Return(createErrorResponse(
         RequestError("invalid_request_error", "wrapper_custom_invalid_dummy_key",
                      "(OpenAI Wrapper) You do not provide a correct dummy key. Note that you should NOT provide a real OpenAI key here, as it is not accepted."), 400))
  ELSE CheckRealKey(req, e)

\* The real-key check placed before authentication
CheckAuthorization_RealKeyFirst(req, e) ==
  IF Falsy(e.REAL_OPENAI_KEY)
  THEN Return(createErrorResponse(
         RequestError("invalid_request_error", "wrapper_custom_no_real_key_in_env",
                      "(OpenAI Wrapper) You do not provide a real OpenAI key. Please add REAL_OPENAI_KEY in the Cloudflare Dashboard."), 500))
  ELSE IF Falsy(req.headers["Authorization"])
  THEN Return(createErrorResponse(
         RequestError("invalid_request_error", "wrapper_custom_no_dummy_key_in_authorization",
                      "(OpenAI Wrapper) You do not provide a dummy key in the Authorization header."), 401))
  ELSE CheckWrapperKey(req, e)

CheckAuthorization(req, e) ==
  IF Falsy(req.headers["Authorization"])
  THEN Return(createErrorResponse(
         RequestError("invalid_request_error", "wrapper_custom_no_dummy_key_in_authorization",
                      "(OpenAI Wrapper) You do not provide a dummy key in the Authorization header."), 401))
  ELSE CheckWrapperKey(req, e)

\* The missing-dummy-key error sent with status 401
CheckDummyKey_Status401(req, e) ==
  IF Falsy(e.DUMMY_WRAPPER_KEY)
  THEN Return(createErrorResponse(
         RequestError("invalid_request_error", "wrapper_custom_no_dummy_key_in_env",
                      "(OpenAI Wrapper) You do not provide a dummy wrapper key in environment variables. Please add DUMMY_WRAPPER_KEY in the Cloudflare Dashboard."), 401))
  ELSE CheckAuthorization(req, e)

CheckDummyKey(req, e) ==
  IF Falsy(e.DUMMY_WRAPPER_KEY)
  THEN Return(createErrorResponse(
         RequestError("invalid_request_error", "wrapper_custom_no_dummy_key_in_env",
                      "(OpenAI Wrapper) You do not provide a dummy wrapper key in environment variables. Please add DUMMY_WRAPPER_KEY in the Cloudflare Dashboard."), 400))
  ELSE CheckAuthorization(req, e)

\* The synchronous part of handleRequest, from entry to return, throw or await
handleRequest(req, e) ==
  IF Falsy(e.AI_GATEWAY_ENDPOINT_URL)
  THEN Return(createErrorResponse(
         RequestError("invalid_request_error", "wrapper_custom_no_endpoint_url_in_env",
                      "(OpenAI Wrapper) You do not provide a gateway URL in environment variables. Please add AI_GATEWAY_ENDPOINT_URL in the Cloudflare Dashboard."), 400))
  ELSE CheckDummyKey(req, e)

\* The catch block of handleRequest
forwardingFailed ==
  createErrorResponse(
    RequestError("internal_server_error", "wrapper_forwarding_failed",
                 "(OpenAI Wrapper) Failed to forward request to OpenAI API."), 500)

----------------------------------------------------------------------------
(* Inputs *)

KeyChars == {"a", "b"}

RECURSIVE StringsOfLen(_)
StringsOfLen(n) ==
  IF n = 0 THEN {<<>>}
  ELSE {<<c>> \o s : c \in KeyChars, s \in StringsOfLen(n - 1)}

Keys == UNION {StringsOfLen(n) : n \in 1..MaxKeyLen}

GatewayURL == <<"h", "t", "t", "p", "s", ":", "/", "/", "g">>
RelativeURL == <<"g">>

EnvURLs == {Undefined, <<>>, GatewayURL, RelativeURL}
EnvKeys == {Undefined, <<>>} \cup Keys

Envs ==
  [AI_GATEWAY_ENDPOINT_URL : EnvURLs, DUMMY_WRAPPER_KEY : EnvKeys, REAL_OPENAI_KEY : EnvKeys]

\* Values of request.headers.get('Authorization'): no header, an empty one,
\* a bare token, a Bearer token
Authorizations == {Null, <<>>} \cup Keys \cup {Bearer \o k : k \in Keys}

Pathnames ==
  {<<"/">>, <<"/", "h">>, V1, <<"/", "v", "1", "/", "c">>, <<"/", "v", "1", "c">>}

Searches == {<<>>, <<"?", "q">>}

\* method and body of the inbound request
Payloads == {[method |-> "GET", body |-> Null], [method |-> "POST", body |-> <<"{", "}">>]}

HeaderNames == {"Authorization", "Content-Type"}

MkRequest(auth, pathname, search, payload) ==
  [method |-> payload.method,
   url |-> [origin |-> <<"w">>, pathname |-> pathname, search |-> search],
   headers |-> [n \in HeaderNames |->
                  IF n = "Authorization" THEN auth
                  ELSE IF payload.method = "POST" THEN <<"j">> ELSE Null],
   body |-> payload.body]

Requests ==
  {MkRequest(a, p, s, m) : a \in Authorizations, p \in Pathnames, s \in Searches, m \in Payloads}

\* What the upstream gateway may answer, an error-shaped answer included
UpstreamResponses ==
  {[status |-> 200, headers |-> [ContentType |-> "application/json"], body |-> <<"completion">>],
   [status |-> 401, headers |-> [ContentType |-> "application/json"], body |-> <<"error">>]}

\* The workload of the concurrent specification: one deployment (gateway URL
\* and dummy key "a") whose real key is unset, equal to the dummy key or
\* proper, and requests without a token, with the dummy key and with key "b".
ConcEnvs ==
  [AI_GATEWAY_ENDPOINT_URL : {GatewayURL, RelativeURL},
   DUMMY_WRAPPER_KEY : {<<"a">>},
   REAL_OPENAI_KEY : {Undefined, <<"a">>, <<"b">>}]

ConcRequests ==
  {MkRequest(a, p, <<>>, [method |-> "POST", body |-> <<"{", "}">>]) :
     a \in {Null, Bearer \o <<"a">>, Bearer \o <<"b">>},
     p \in {<<"/", "h">>, <<"/", "v", "1", "/", "c">>}}

----------------------------------------------------------------------------
(* State machine *)

NoRequest == MkRequest(Null, <<"/">>, <<>>, [method |-> "GET", body |-> Null])
NoEnv ==
  [AI_GATEWAY_ENDPOINT_URL |-> Undefined, DUMMY_WRAPPER_KEY |-> Undefined,
   REAL_OPENAI_KEY |-> Undefined]
NoFetch == [state |-> "none", value |-> NoResponse]

InitWith(invocations) ==
  /\ pc = [i \in invocations |-> "idle"]
  /\ request = [i \in invocations |-> NoRequest]
  /\ env = [i \in invocations |-> NoEnv]
  /\ response = [i \in invocations |-> NoResponse]
  /\ fetched = [i \in invocations |-> NoFetch]
  /\ outbound = <<>>

\* The runtime calls fetch(request, env, ctx), which runs handleRequest up to
\* its first suspension point (or to its end) without interleaving.
Invoke(i, envs, requests) ==
  /\ pc[i] = "idle"
  /\ \E e \in envs, r \in requests :
       LET res == handleRequest(r, e)
       IN /\ request' = [request EXCEPT ![i] = r]
          /\ env' = [env EXCEPT ![i] = e]
          /\ pc' = [pc EXCEPT ![i] =
                      CASE res.kind = "return" -> "returned"
                        [] res.kind = "await" -> "awaiting"
                        [] res.kind = "throw" -> "threw"]
          /\ response' = [response EXCEPT ![i] = res.response]
          /\ fetched' = [fetched EXCEPT ![i] =
                           IF res.sent = <<>> THEN NoFetch
                           ELSE [state |-> "pending", value |-> NoResponse]]
          /\ outbound' = outbound \o [k \in 1..Len(res.sent) |->
                                        [by |-> i, request |-> res.sent[k]]]

\* fetch resolves: `return await fetch(gptRequest)` returns the upstream response
FetchResolve(i) ==
  /\ pc[i] = "awaiting"
  /\ \E r \in UpstreamResponses :
       /\ fetched' = [fetched EXCEPT ![i] = [state |-> "resolved", value |-> r]]
       /\ response' = [response EXCEPT ![i] = r]
  /\ pc' = [pc EXCEPT ![i] = "returned"]
  /\ UNCHANGED <<request, env, outbound>>

\* fetch rejects: the catch block returns wrapper_forwarding_failed
FetchReject(i) ==
  /\ pc[i] = "awaiting"
  /\ fetched' = [fetched EXCEPT ![i] = [state |-> "rejected", value |-> NoResponse]]
  /\ response' = [response EXCEPT ![i] = forwardingFailed]
  /\ pc' = [pc EXCEPT ![i] = "returned"]
  /\ UNCHANGED <<request, env, outbound>>

\* One invocation, every configuration and request
Init == InitWith({1})

Next ==
  \/ Invoke(1, Envs, Requests)
  \/ FetchResolve(1)
  \/ FetchReject(1)

Spec == Init /\ [][Next]_vars

\* NumInvocations invocations interleaved at the fetch suspension point
InitConc == InitWith(1..NumInvocations)

NextConc ==
  \E i \in 1..NumInvocations :
    \/ Invoke(i, ConcEnvs, ConcRequests)
    \/ FetchResolve(i)
    \/ FetchReject(i)

SpecConc == InitConc /\ [][NextConc]_vars

----------------------------------------------------------------------------
(* Vocabulary of the properties, defined apart from the handler's own helpers *)

Invocations == DOMAIN pc
Started(i) == pc[i] # "idle"

\* A configuration value or header that is absent or empty
Missing(x) == x \in {Undefined, Null, <<>>}

\* The longest suffix of s that holds no space
TrailingToken(s) ==
  LET free == {k \in 1..(Len(s) + 1) : \A m \in k..Len(s) : s[m] # " "}
  IN SubSeq(s, CHOOSE k \in free : \A m \in free : k <= m, Len(s))

HasV1Prefix(p) == Len(p) >= 3 /\ p[1] = "/" /\ p[2] = "v" /\ p[3] = "1"

Authorization(i) == request[i].headers["Authorization"]

\* The gptRequests invocation i handed to fetch, in order
SentBy(i) ==
  LET mine == SelectSeq(outbound, LAMBDA o : o.by = i)
  IN [k \in 1..Len(mine) |-> mine[k].request]

\* The error shape {type, code, message, param: null} with its fixed headers
IsStructuredError(resp) ==
  /\ resp.headers = responseHeader
  /\ Len(resp.body) = 8
  /\ resp.body[1] = "type" /\ resp.body[3] = "code"
  /\ resp.body[5] = "message" /\ resp.body[7] = "param" /\ resp.body[8] = "null"

HasErrorCode(resp, code) == IsStructuredError(resp) /\ resp.body[4] = code
HasError(resp, code, status) == HasErrorCode(resp, code) /\ resp.status = status

\* The first failing check in the documented order, as <<code, status>>;
\* <<"forward", 0>> when none of the seven fails
FirstFailing(req, e) ==
  LET auth == req.headers["Authorization"]
  IN IF Missing(e.AI_GATEWAY_ENDPOINT_URL)
       THEN <<"wrapper_custom_no_endpoint_url_in_env", 400>>
     ELSE IF Missing(e.DUMMY_WRAPPER_KEY)
       THEN <<"wrapper_custom_no_dummy_key_in_env", 400>>
     ELSE IF Missing(auth)
       THEN <<"wrapper_custom_no_dummy_key_in_authorization", 401>>
     ELSE IF TrailingToken(auth) # e.DUMMY_WRAPPER_KEY
       THEN <<"wrapper_custom_invalid_dummy_key", 400>>
     ELSE IF Missing(e.REAL_OPENAI_KEY)
       THEN <<"wrapper_custom_no_real_key_in_env", 500>>
     ELSE IF e.REAL_OPENAI_KEY = e.DUMMY_WRAPPER_KEY
       THEN <<"wrapper_custom_dummy_key_equals_to_real_key", 500>>
     ELSE IF ~HasV1Prefix(req.url.pathname)
       THEN <<"unknown_url", 400>>
     ELSE <<"forward", 0>>

PassesAllChecks(i) == FirstFailing(request[i], env[i])[1] = "forward"

Authenticated(i) ==
  /\ ~Missing(Authorization(i))
  /\ TrailingToken(Authorization(i)) = env[i].DUMMY_WRAPPER_KEY

AnyConfigMissing(i) ==
  \/ Missing(env[i].AI_GATEWAY_ENDPOINT_URL)
  \/ Missing(env[i].DUMMY_WRAPPER_KEY)
  \/ Missing(env[i].REAL_OPENAI_KEY)

----------------------------------------------------------------------------
(* C1 *)

\* C1 as claimed: whenever a configuration value is missing, the response
\* carries the error code of a missing value and no outbound call is made,
\* whatever the Authorization header and the path are.
C1_AsClaimed ==
  \A i \in Invocations :
    (Started(i) /\ AnyConfigMissing(i)) =>
      /\ pc[i] = "returned"
      /\ SentBy(i) = <<>>
      /\ \/ /\ Missing(env[i].AI_GATEWAY_ENDPOINT_URL)
            /\ HasErrorCode(response[i], "wrapper_custom_no_endpoint_url_in_env")
         \/ /\ Missing(env[i].DUMMY_WRAPPER_KEY)
            /\ HasErrorCode(response[i], "wrapper_custom_no_dummy_key_in_env")
         \/ /\ Missing(env[i].REAL_OPENAI_KEY)
            /\ HasErrorCode(response[i], "wrapper_custom_no_real_key_in_env")

\* C1 amended: with a configuration value missing no outbound call is made and
\* an error is returned; it is the gateway-URL code if the URL is missing,
\* else the dummy-key code if the dummy key is missing, else (only the real
\* key missing) the real-key code when the request's trailing token equals
\* the dummy key and the authentication error (no_dummy_key_in_authorization
\* or invalid_dummy_key) when it does not.
C1_Amended ==
  \A i \in Invocations :
    (Started(i) /\ AnyConfigMissing(i)) =>
      /\ pc[i] = "returned"
      /\ SentBy(i) = <<>>
      /\ IF Missing(env[i].AI_GATEWAY_ENDPOINT_URL)
           THEN HasErrorCode(response[i], "wrapper_custom_no_endpoint_url_in_env")
         ELSE IF Missing(env[i].DUMMY_WRAPPER_KEY)
           THEN HasErrorCode(response[i], "wrapper_custom_no_dummy_key_in_env")
         ELSE IF Authenticated(i)
           THEN HasErrorCode(response[i], "wrapper_custom_no_real_key_in_env")
         ELSE IF Missing(Authorization(i))
           THEN HasErrorCode(response[i], "wrapper_custom_no_dummy_key_in_authorization")
         ELSE HasErrorCode(response[i], "wrapper_custom_invalid_dummy_key")

\* Only the real key is missing and the caller presented the dummy key
C1_Witness ==
  \E i \in Invocations :
    /\ pc[i] = "returned"
    /\ ~Missing(env[i].AI_GATEWAY_ENDPOINT_URL)
    /\ ~Missing(env[i].DUMMY_WRAPPER_KEY)
    /\ Missing(env[i].REAL_OPENAI_KEY)
    /\ Authenticated(i)
    /\ HasErrorCode(response[i], "wrapper_custom_no_real_key_in_env")

----------------------------------------------------------------------------
(* C2 *)

ErrorTable ==
  {<<"wrapper_custom_no_endpoint_url_in_env", 400>>,
   <<"wrapper_custom_no_dummy_key_in_env", 400>>,
   <<"wrapper_custom_no_dummy_key_in_authorization", 401>>,
   <<"wrapper_custom_invalid_dummy_key", 400>>,
   <<"wrapper_custom_no_real_key_in_env", 500>>,
   <<"wrapper_custom_dummy_key_equals_to_real_key", 500>>,
   <<"unknown_url", 400>>,
   <<"wrapper_forwarding_failed", 500>>}

\* C2: the result is the error of the first failing check in the order URL,
\* dummy key, Authorization present, trailing token, real key, keys differ,
\* /v1 prefix; a request is forwarded only if none fails; and every error the
\* handler produces pairs its code with the status of the table.
C2_FirstFailingCheckWins ==
  \A i \in Invocations :
    Started(i) =>
      LET first == FirstFailing(request[i], env[i])
      IN /\ first[1] # "forward" =>
              /\ pc[i] = "returned"
              /\ HasError(response[i], first[1], first[2])
         /\ SentBy(i) # <<>> => first[1] = "forward"
         /\ (pc[i] = "returned" /\ fetched[i].state # "resolved") =>
              /\ IsStructuredError(response[i])
              /\ <<response[i].body[4], response[i].status>> \in ErrorTable

\* The seventh check decides: everything else valid, path outside /v1
C2_Witness ==
  \E i \in Invocations :
    /\ pc[i] = "returned"
    /\ FirstFailing(request[i], env[i]) = <<"unknown_url", 400>>
    /\ HasError(response[i], "unknown_url", 400)

----------------------------------------------------------------------------
(* C3 *)

Unauthenticated(i) ==
  \/ Missing(Authorization(i))
  \/ TrailingToken(Authorization(i)) # env[i].DUMMY_WRAPPER_KEY

\* C3: two invocations with the same gateway URL, dummy key and request, whose
\* REAL_OPENAI_KEY may differ, return the identical response and make no
\* outbound call when the request has no Authorization header or its trailing
\* token is not the dummy key.
C3_RealKeyNoninterference ==
  \A i, j \in Invocations :
    ( /\ Started(i) /\ Started(j)
      /\ request[i] = request[j]
      /\ env[i].AI_GATEWAY_ENDPOINT_URL = env[j].AI_GATEWAY_ENDPOINT_URL
      /\ env[i].DUMMY_WRAPPER_KEY = env[j].DUMMY_WRAPPER_KEY
      /\ Unauthenticated(i) ) =>
        /\ pc[i] = "returned" /\ pc[j] = "returned"
        /\ response[i] = response[j]
        /\ SentBy(i) = <<>> /\ SentBy(j) = <<>>

\* The same wrong-token request handled once with no real key and once with one
C3_Witness ==
  \E i, j \in Invocations :
    /\ pc[i] = "returned" /\ pc[j] = "returned"
    /\ request[i] = request[j]
    /\ env[i].AI_GATEWAY_ENDPOINT_URL = env[j].AI_GATEWAY_ENDPOINT_URL
    /\ env[i].DUMMY_WRAPPER_KEY = env[j].DUMMY_WRAPPER_KEY
    /\ Missing(env[i].REAL_OPENAI_KEY) /\ ~Missing(env[j].REAL_OPENAI_KEY)
    /\ ~Missing(Authorization(i)) /\ Unauthenticated(i)
    /\ HasError(response[j], "wrapper_custom_invalid_dummy_key", 400)

----------------------------------------------------------------------------
(* C4 *)

\* C4 as claimed: no invocation ends in an uncaught exception, and every
\* response the upstream did not produce is the structured error record.
C4_AsClaimed ==
  \A i \in Invocations :
    /\ pc[i] # "threw"
    /\ (pc[i] = "returned" /\ fetched[i].state # "resolved") =>
         IsStructuredError(response[i])

----------------------------------------------------------------------------
(* C5 *)

\* C5 as claimed: a non-empty Authorization header whose trailing token is not
\* the dummy key gets wrapper_custom_invalid_dummy_key/400 whatever the other
\* configuration values, the path, the method and the body are.
C5_AsClaimed ==
  \A i \in Invocations :
    (Started(i) /\ ~Missing(Authorization(i)) /\ Unauthenticated(i)) =>
      /\ pc[i] = "returned"
      /\ HasError(response[i], "wrapper_custom_invalid_dummy_key", 400)

\* C5 amended: the same, provided AI_GATEWAY_ENDPOINT_URL and
\* DUMMY_WRAPPER_KEY are both non-empty; REAL_OPENAI_KEY, path, method and
\* body do not matter.
C5_Amended ==
  \A i \in Invocations :
    ( /\ Started(i)
      /\ ~Missing(env[i].AI_GATEWAY_ENDPOINT_URL)
      /\ ~Missing(env[i].DUMMY_WRAPPER_KEY)
      /\ ~Missing(Authorization(i)) /\ Unauthenticated(i) ) =>
        /\ pc[i] = "returned"
        /\ HasError(response[i], "wrapper_custom_invalid_dummy_key", 400)

\* A Bearer token that is not the dummy key, with no real key configured, on a
\* POST outside /v1
C5_Witness ==
  \E i \in Invocations :
    /\ pc[i] = "returned"
    /\ startsWith(Authorization(i), Bearer)
    /\ Unauthenticated(i)
    /\ Missing(env[i].REAL_OPENAI_KEY)
    /\ ~HasV1Prefix(request[i].url.pathname)
    /\ request[i].method = "POST"
    /\ HasError(response[i], "wrapper_custom_invalid_dummy_key", 400)

----------------------------------------------------------------------------
(* C6 *)

\* C6 as claimed: every request whose path does not start with /v1 gets
\* unknown_url/400 and no outbound call.
C6_AsClaimed ==
  \A i \in Invocations :
    (Started(i) /\ ~HasV1Prefix(request[i].url.pathname)) =>
      /\ pc[i] = "returned"
      /\ HasError(response[i], "unknown_url", 400)
      /\ SentBy(i) = <<>>

\* C6 amended: a request whose path does not start with /v1 is never proxied,
\* and it gets unknown_url/400 when the six earlier checks (gateway URL, dummy
\* key, Authorization present, trailing token, real key, keys differ) pass;
\* otherwise it gets the error of the first of those that fails.
C6_Amended ==
  \A i \in Invocations :
    (Started(i) /\ ~HasV1Prefix(request[i].url.pathname)) =>
      /\ pc[i] = "returned"
      /\ SentBy(i) = <<>>
      /\ IsStructuredError(response[i])
      /\ ( /\ ~Missing(env[i].AI_GATEWAY_ENDPOINT_URL)
           /\ Authenticated(i)
           /\ ~Missing(env[i].REAL_OPENAI_KEY)
           /\ env[i].REAL_OPENAI_KEY # env[i].DUMMY_WRAPPER_KEY ) =>
             HasError(response[i], "unknown_url", 400)

\* Valid configuration and dummy key, path /h
C6_Witness ==
  \E i \in Invocations :
    /\ pc[i] = "returned"
    /\ Authenticated(i)
    /\ request[i].url.pathname = <<"/", "h">>
    /\ HasError(response[i], "unknown_url", 400)

----------------------------------------------------------------------------
(* C7 *)

\* C7: every request handed to fetch has the gateway URL followed by the
\* inbound path without its first three characters, Authorization equal to
\* "Bearer " followed by the real key and different from the inbound
\* Authorization, and the inbound method, body and other headers.
C7_OutboundRequest ==
  \A k \in 1..Len(outbound) :
    LET out == outbound[k].request
        i == outbound[k].by
        path == request[i].url.pathname
    IN /\ out.url = env[i].AI_GATEWAY_ENDPOINT_URL \o SubSeq(path, 4, Len(path))
       /\ out.headers["Authorization"] = Bearer \o env[i].REAL_OPENAI_KEY
       /\ out.headers["Authorization"] # Authorization(i)
       /\ \A n \in HeaderNames \ {"Authorization"} :
            out.headers[n] = request[i].headers[n]
       /\ out.method = request[i].method
       /\ out.body = request[i].body

\* A POST to /v1/c with a query string and Bearer <dummy key> was forwarded
C7_Witness ==
  \E k \in 1..Len(outbound) :
    LET i == outbound[k].by
    IN /\ request[i].url.pathname = <<"/", "v", "1", "/", "c">>
       /\ request[i].url.search # <<>>
       /\ request[i].method = "POST"
       /\ startsWith(Authorization(i), Bearer)
       /\ outbound[k].request.url = GatewayURL \o <<"/", "c">>

----------------------------------------------------------------------------
(* C8 *)

\* C8 as claimed: a request that passes all checks triggers exactly one fetch
\* and one that fails a check none; a resolved fetch's response is returned
\* unmodified, and a rejected one yields wrapper_forwarding_failed/500 with no
\* second fetch.
C8_AsClaimed ==
  \A i \in Invocations :
    Started(i) =>
      /\ Len(SentBy(i)) = IF PassesAllChecks(i) THEN 1 ELSE 0
      /\ fetched[i].state = "resolved" =>
           pc[i] = "returned" /\ response[i] = fetched[i].value
      /\ fetched[i].state = "rejected" =>
           /\ pc[i] = "returned"
           /\ HasError(response[i], "wrapper_forwarding_failed", 500)

----------------------------------------------------------------------------
(* C9 *)

\* C9: each invocation's outbound request and response are determined by its
\* own request, configuration and fetch outcome, whatever the other
\* invocations do: an invocation that left the synchronous part holding a
\* fetch has issued exactly one request of its own, its response is its own
\* fetch's value or the forwarding error, a response without a fetch is the
\* error of its own first failing check, and two invocations with the same
\* request and configuration issue equal outbound requests, each its own, and
\* return equal responses when their fetches end alike.
C9_Stateless ==
  /\ \A i \in Invocations :
       Started(i) =>
         /\ fetched[i].state = "none" => SentBy(i) = <<>>
         /\ fetched[i].state # "none" =>
              /\ Len(SentBy(i)) = 1
              /\ PassesAllChecks(i)
         /\ fetched[i].state = "pending" <=> pc[i] = "awaiting"
         /\ fetched[i].state = "resolved" =>
              pc[i] = "returned" /\ response[i] = fetched[i].value
         /\ fetched[i].state = "rejected" =>
              /\ pc[i] = "returned"
              /\ HasError(response[i], "wrapper_forwarding_failed", 500)
         /\ (pc[i] = "returned" /\ fetched[i].state = "none") =>
              LET first == FirstFailing(request[i], env[i])
              IN HasError(response[i], first[1], first[2])
  /\ \A i, j \in Invocations :
       (Started(i) /\ Started(j) /\ request[i] = request[j] /\ env[i] = env[j]) =>
         /\ SentBy(i) = SentBy(j)
         /\ Len(outbound) >= Len(SentBy(i)) + (IF i = j THEN 0 ELSE Len(SentBy(j)))
         /\ (pc[i] = "returned" /\ pc[j] = "returned" /\ fetched[i] = fetched[j]) =>
              response[i] = response[j]

\* The same valid request handled twice: two forwarded calls, both answered
C9_Witness ==
  \E i, j \in Invocations :
    /\ i # j
    /\ request[i] = request[j] /\ env[i] = env[j]
    /\ fetched[i].state = "resolved" /\ fetched[j].state = "resolved"
    /\ Len(outbound) = 2
    /\ outbound[1].by # outbound[2].by

----------------------------------------------------------------------------
(* C10 *)

\* C10: for every request handed to fetch, the real key is non-empty and
\* differs from the dummy key, and the client's trailing token equals the
\* dummy key; and a request whose trailing token is the real key is never
\* forwarded.
C10_ForwardedInvariant ==
  /\ \A k \in 1..Len(outbound) :
       LET i == outbound[k].by
       IN /\ ~Missing(env[i].REAL_OPENAI_KEY)
          /\ env[i].REAL_OPENAI_KEY # env[i].DUMMY_WRAPPER_KEY
          /\ TrailingToken(Authorization(i)) = env[i].DUMMY_WRAPPER_KEY
          /\ TrailingToken(Authorization(i)) # env[i].REAL_OPENAI_KEY
  /\ \A i \in Invocations :
       ( /\ Started(i)
         /\ ~Missing(Authorization(i))
         /\ TrailingToken(Authorization(i)) = env[i].REAL_OPENAI_KEY ) =>
           SentBy(i) = <<>>

\* A request is in flight to the gateway
C10_Witness ==
  \E i \in Invocations :
    /\ pc[i] = "awaiting"
    /\ Len(SentBy(i)) = 1
    /\ ~Missing(env[i].REAL_OPENAI_KEY)

====
